---- MODULE Spec2Model ----
(***************************************************************************)
(* Pricing, risk-weight and fulfillment-routing core of the vAMM perp      *)
(* exchange (programs/clearing_house and programs/drift).                  *)
(*                                                                         *)
(* Most functions of the core are pure: a behaviour draws one call (the    *)
(* function and its inputs) in the initial state and the single action of  *)
(* the corresponding specification applies the function and records what   *)
(* it returns.  The &mut self methods (AMM::update_volume_24h and the      *)
(* PoolBalance methods) act on the object held in self, call after call.   *)
(***************************************************************************)
EXTENDS Integers, Sequences, FiniteSets, TLC

VARIABLES
    pc,      \* "call" before the function has run, "done" after it returned
    fn,      \* name of the function being called
    input,   \* record of the arguments and of the fields of self it reads
    result,  \* what the function returned (Ok(v) or Err)
    self     \* the object a &mut self method acts on (NoSelf for the
             \* functions that do not mutate anything)

vars == <<pc, fn, input, result, self>>

(***************************************************************************)
(* Option<T> and Result<T>                                                 *)
(***************************************************************************)
None == <<>>
Some(x) == <<x>>

Ok(v) == [ok |-> TRUE, val |-> v]
Err == [ok |-> FALSE]
Pending == [ok |-> FALSE, pending |-> TRUE]
NoSelf == <<>>

Min(a, b) == IF a <= b THEN a ELSE b
Max(a, b) == IF a >= b THEN a ELSE b

(***************************************************************************)
(* Bounds of the model.  The integer widths are scaled down so that every  *)
(* checked operation can be evaluated and can fail.                        *)
(***************************************************************************)
U64_MAX == 7            \* stands for u64::MAX in the price domain
U128_MAX == 2000000000  \* stands for u128::MAX
MaxMakers == 7          \* longest maker list
MaxPrice == 4           \* maker and taker prices are 1..MaxPrice
U32_MAX == 1000000      \* stands for u32::MAX
MaxSize == 2000000000   \* largest position size
MARK_PRICE_PRECISION_I128 == 1000  \* the mark price precision, scaled down

(***************************************************************************)
(* Program constants                                                       *)
(***************************************************************************)
BID_ASK_SPREAD_PRECISION == 1000000
U16_MODULUS == 65536
\* the precisions are defined in math::constants; MARGIN_PRECISION is "10_000
\* (1x)" and 100_000 * BANK_IMF_PRECISION / MARGIN_PRECISION is "1e5 * 1e2"
\* in the comments of Market::get_margin_ratio
MARGIN_PRECISION == 10000
BANK_IMF_PRECISION == 1000000
\* "100 = 1 in BANK_WEIGHT_PRECISION" (Market::get_unsettled_asset_weight)
BANK_WEIGHT_PRECISION == 100
SPOT_WEIGHT_PRECISION == 10000
AMM_TO_QUOTE_PRECISION_RATIO == 1000
U8_MODULUS == 256

(***************************************************************************)
(* Checked arithmetic (checked_* / SafeMath / Cast): Err instead of a      *)
(* wrapped value.  The operands are Results so that `?` chains compose.    *)
(***************************************************************************)
checked_add(a, b, max) ==
    IF ~a.ok \/ ~b.ok THEN Err
    ELSE IF a.val > max - b.val THEN Err ELSE Ok(a.val + b.val)

checked_sub(a, b) ==
    IF ~a.ok \/ ~b.ok THEN Err
    ELSE IF b.val > a.val THEN Err ELSE Ok(a.val - b.val)

checked_mul(a, b, max) ==
    IF ~a.ok \/ ~b.ok THEN Err
    ELSE IF b.val # 0 /\ a.val > max \div b.val THEN Err ELSE Ok(a.val * b.val)

checked_div(a, b) ==
    IF ~a.ok \/ ~b.ok THEN Err
    ELSE IF b.val = 0 THEN Err ELSE Ok(a.val \div b.val)

cast(a, max) ==
    IF ~a.ok THEN Err
    ELSE IF a.val < 0 \/ a.val > max THEN Err ELSE a

(***************************************************************************)
(* state::perp_market::AMM  bid / ask (u64 prices, u32 spreads)            *)
(***************************************************************************)
PerpAMM_bid_price_plus_spread(amm, reserve_price) ==
    cast(checked_div(
            checked_mul(Ok(reserve_price),
                        Ok(BID_ASK_SPREAD_PRECISION + amm.short_spread),
                        U128_MAX),
            Ok(BID_ASK_SPREAD_PRECISION)),
         U64_MAX)

PerpAMM_bid_price(amm, reserve_price) ==
    cast(checked_div(
            checked_mul(cast(Ok(reserve_price), U128_MAX),
                        checked_sub(Ok(BID_ASK_SPREAD_PRECISION),
                                    cast(Ok(amm.short_spread), U128_MAX)),
                        U128_MAX),
            Ok(BID_ASK_SPREAD_PRECISION)),
         U64_MAX)

PerpAMM_ask_price(amm, reserve_price) ==
    cast(checked_div(
            checked_mul(cast(Ok(reserve_price), U128_MAX),
                        checked_add(Ok(BID_ASK_SPREAD_PRECISION),
                                    cast(Ok(amm.long_spread), U128_MAX),
                                    U128_MAX),
                        U128_MAX),
            Ok(BID_ASK_SPREAD_PRECISION)),
         U64_MAX)

PerpAMM_bid_ask_price(amm, reserve_price) ==
    LET bid_price == PerpAMM_bid_price(amm, reserve_price)
        ask_price == PerpAMM_ask_price(amm, reserve_price)
    IN  IF ~bid_price.ok THEN Err
        ELSE IF ~ask_price.ok THEN Err
        ELSE Ok([bid |-> bid_price.val, ask |-> ask_price.val])

(***************************************************************************)
(* state::market::AMM  bid / ask (u128 prices, u128 spreads)               *)
(***************************************************************************)
MarketAMM_bid_price(amm, mark_price) ==
    checked_div(
        checked_mul(Ok(mark_price),
                    checked_sub(Ok(BID_ASK_SPREAD_PRECISION), Ok(amm.short_spread)),
                    U128_MAX),
        Ok(BID_ASK_SPREAD_PRECISION))

MarketAMM_ask_price(amm, mark_price) ==
    checked_div(
        checked_mul(Ok(mark_price),
                    checked_add(Ok(BID_ASK_SPREAD_PRECISION), Ok(amm.long_spread),
                                U128_MAX),
                    U128_MAX),
        Ok(BID_ASK_SPREAD_PRECISION))

MarketAMM_bid_ask_price(amm, mark_price) ==
    LET bid_price == MarketAMM_bid_price(amm, mark_price)
        ask_price == MarketAMM_ask_price(amm, mark_price)
    IN  IF ~bid_price.ok THEN Err
        ELSE IF ~ask_price.ok THEN Err
        ELSE Ok([bid |-> bid_price.val, ask |-> ask_price.val])

amm_jit_is_active(amm) == amm.amm_jit_intensity > 0

(***************************************************************************)
(* math::fulfillment::determine_perp_fulfillment_methods                   *)
(***************************************************************************)
Long == "Long"
Short == "Short"
opposite(direction) == IF direction = Long THEN Short ELSE Long

AMM(price, size) == [method |-> "AMM", price |-> price, size |-> size]
Match(maker_key, maker_order_index) ==
    [method |-> "Match", maker_key |-> maker_key,
     maker_order_index |-> maker_order_index]

\* math::matching::do_orders_cross: a bid crosses an ask at or below it
do_orders_cross(maker_direction, maker_price, taker_price) ==
    IF maker_direction = Long
    THEN taker_price <= maker_price
    ELSE taker_price >= maker_price

can_fill_with_amm(in) ==
    /\ in.amm_is_available
    /\ in.valid_oracle_price # None
    /\ in.is_amm_available_liquidity_source

taker_crosses_always(in, price) == TRUE

taker_crosses(in, price) ==
    IF in.taker_price = None
    THEN TRUE
    ELSE do_orders_cross(opposite(in.direction), price, in.taker_price[1])

maker_better_than_amm_swapped(in, maker_price, amm_bid_price, amm_ask_price) ==
    IF in.direction = Long
    THEN maker_price <= amm_bid_price
    ELSE maker_price >= amm_ask_price

maker_better_than_amm(in, maker_price, amm_bid_price, amm_ask_price) ==
    IF in.direction = Long
    THEN maker_price <= amm_ask_price
    ELSE maker_price >= amm_bid_price

step_limit_off(methods) == FALSE

step_limit_reached(methods) == Len(methods) > 6

advance_amm_price_never(capped, maker_price, amm_price) == amm_price

\* the match of lines 55-58, after a capped AMM step has been pushed
advance_amm_price(capped, maker_price, amm_price) ==
    IF capped THEN maker_price ELSE amm_price

push_maker_steps_match_first(methods, capped, m) ==
    LET methods1 == Append(methods,
                           Match(m.maker_key, m.maker_order_index % U16_MODULUS))
    IN  IF capped
        THEN Append(methods1, AMM(Some(m.maker_price), None))
        ELSE methods1

\* the pushes of one iteration: the capped AMM step of line 53, if any, then
\* the Match step of lines 62-65
push_maker_steps(methods, capped, m) ==
    LET methods1 == IF capped
                    THEN Append(methods, AMM(Some(m.maker_price), None))
                    ELSE methods
    IN  Append(methods1,
               Match(m.maker_key, m.maker_order_index % U16_MODULUS))

\* the for loop over maker_orders_info, from its i-th entry on
RECURSIVE maker_walk(_, _, _, _, _)
maker_walk(in, i, methods, amm_bid_price, amm_ask_price) ==
    LET out == [methods |-> methods, bid |-> amm_bid_price, ask |-> amm_ask_price]
    IN
    IF i > Len(in.maker_orders_info) THEN out
    ELSE
    LET m == in.maker_orders_info[i] IN
    IF ~taker_crosses(in, m.maker_price) THEN out
    ELSE
    LET capped == /\ can_fill_with_amm(in)
                  /\ ~maker_better_than_amm(in, m.maker_price,
                                            amm_bid_price, amm_ask_price)
        ask1 == IF in.direction = Long
                THEN advance_amm_price(capped, m.maker_price, amm_ask_price)
                ELSE amm_ask_price
        bid1 == IF in.direction = Short
                THEN advance_amm_price(capped, m.maker_price, amm_bid_price)
                ELSE amm_bid_price
        methods2 == push_maker_steps(methods, capped, m)
    IN  IF step_limit_reached(methods2)
        THEN [methods |-> methods2, bid |-> bid1, ask |-> ask1]
        ELSE maker_walk(in, i + 1, methods2, bid1, ask1)

amm_wants_to_make(in) ==
    /\ IF in.direction = Long
       THEN in.amm.base_asset_amount_with_amm < 0
       ELSE in.amm.base_asset_amount_with_amm > 0
    /\ amm_jit_is_active(in.amm)

jit_price == 0
jit_size == 0

\* the block of lines 72-97: the JIT step
jit_methods(in, methods) ==
    IF amm_wants_to_make(in) /\ in.jit_base_asset_amount > 0
    THEN Append(methods, AMM(Some(jit_price), Some(jit_size)))
    ELSE methods

trailing_amm_methods_capped(in, methods, amm_bid_price, amm_ask_price) ==
    IF can_fill_with_amm(in)
    THEN LET amm_price == IF opposite(in.direction) = Long
                          THEN amm_bid_price ELSE amm_ask_price
         IN  IF taker_crosses(in, amm_price)
             THEN Append(methods, AMM(Some(amm_price), None))
             ELSE methods
    ELSE methods

\* the block of lines 99-113: the trailing open-ended AMM step
trailing_amm_methods(in, methods, amm_bid_price, amm_ask_price) ==
    IF can_fill_with_amm(in)
    THEN LET amm_price == IF opposite(in.direction) = Long
                          THEN amm_bid_price ELSE amm_ask_price
         IN  IF taker_crosses(in, amm_price)
             THEN Append(methods, AMM(None, None))
             ELSE methods
    ELSE methods

determine_perp_fulfillment_methods(in) ==
    LET bid_ask == PerpAMM_bid_ask_price(in.amm, in.amm_reserve_price) IN
    IF ~bid_ask.ok THEN Err
    ELSE
    LET walk == maker_walk(in, 1, <<>>, bid_ask.val.bid, bid_ask.val.ask)
        with_jit == jit_methods(in, walk.methods)
    IN  Ok(trailing_amm_methods(in, with_jit, walk.bid, walk.ask))

(***************************************************************************)
(* Inputs of determine_perp_fulfillment_methods                            *)
(***************************************************************************)
\* maker prices in priority order for a long taker: best (lowest) ask first
RECURSIVE AscendingFrom(_, _)
AscendingFrom(n, lo) ==
    IF n = 0 THEN { <<>> }
    ELSE UNION { { <<p>> \o s : s \in AscendingFrom(n - 1, p) } : p \in lo..MaxPrice }

AscendingPrices == UNION { AscendingFrom(n, 1) : n \in 0..MaxMakers }

Reverse(s) == [i \in 1..Len(s) |-> s[Len(s) + 1 - i]]

MakerOrdersInfo(direction, prices) ==
    LET sorted == IF direction = Long THEN prices ELSE Reverse(prices)
    IN  [i \in 1..Len(sorted) |->
            [maker_key |-> i, maker_order_index |-> i - 1, maker_price |-> sorted[i]]]

\* reserve price and spreads of the AMM snapshot: bid = ask = 0, bid 1 and
\* ask 3, bid = ask = 5
PerpAmmPricing ==
    { [amm_reserve_price |-> 0, long_spread |-> 0, short_spread |-> 0],
      [amm_reserve_price |-> 2, long_spread |-> 500000, short_spread |-> 500000],
      [amm_reserve_price |-> 5, long_spread |-> 0, short_spread |-> 0] }

\* a snapshot for which bid_price fails (short spread above the precision)
PerpAmmPricingErr ==
    { [amm_reserve_price |-> 2, long_spread |-> 0,
       short_spread |-> BID_ASK_SPREAD_PRECISION + 1] }

\* net exposure of the AMM, amm_jit_intensity, and the amount
\* calculate_jit_base_asset_amount returns if it is called
PerpJit ==
    { [base_asset_amount_with_amm |-> t[1], amm_jit_intensity |-> t[2],
       jit_base_asset_amount |-> t[3]] :
        t \in { <<-1, 100, 1>>, <<-1, 100, 0>>, <<-1, 0, 1>>, <<0, 100, 1>>,
                <<1, 100, 1>>, <<1, 100, 0>>, <<1, 0, 1>> } }

PerpInput(direction, prices, taker_price, pricing, jit, valid_oracle_price, amm_is_available, auction) ==
    [direction |-> direction,
     taker_price |-> taker_price,
     maker_orders_info |-> MakerOrdersInfo(direction, prices),
     amm |-> [long_spread |-> pricing.long_spread,
              short_spread |-> pricing.short_spread,
              base_asset_amount_with_amm |-> jit.base_asset_amount_with_amm,
              amm_jit_intensity |-> jit.amm_jit_intensity],
     amm_reserve_price |-> pricing.amm_reserve_price,
     valid_oracle_price |-> valid_oracle_price,
     amm_is_available |-> amm_is_available,
     is_amm_available_liquidity_source |-> auction,
     jit_base_asset_amount |-> jit.jit_base_asset_amount]

InitPerp ==
    /\ pc = "call"
    /\ fn = "determine_perp_fulfillment_methods"
    /\ result = Pending
    /\ self = NoSelf
    /\ \E direction \in {Long, Short},
          taker_price \in {None, Some(2), Some(MaxPrice)},
          jit \in PerpJit,
          valid_oracle_price \in {None, Some(2)},
          amm_is_available \in BOOLEAN, auction \in BOOLEAN :
            \/ \E prices \in AscendingPrices, pricing \in PerpAmmPricing :
                    input = PerpInput(direction, prices, taker_price, pricing, jit,
                                      valid_oracle_price, amm_is_available, auction)
            \/ \E prices \in { p \in AscendingPrices : Len(p) <= 1 },
                  pricing \in PerpAmmPricingErr :
                    input = PerpInput(direction, prices, taker_price, pricing, jit,
                                      valid_oracle_price, amm_is_available, auction)

CallPerp ==
    /\ pc = "call"
    /\ fn = "determine_perp_fulfillment_methods"
    /\ result' = determine_perp_fulfillment_methods(input)
    /\ pc' = "done"
    /\ UNCHANGED <<fn, input, self>>

SpecPerp == InitPerp /\ [][CallPerp]_vars

PerpDone == pc = "done" /\ fn = "determine_perp_fulfillment_methods"

(***************************************************************************)
(* Properties of determine_perp_fulfillment_methods                        *)
(***************************************************************************)
IsAmmStep(m) == m.method = "AMM"
IsOpenEndedAmm(m) == m.method = "AMM" /\ m.price = None /\ m.size = None
NoJitStep(in) == ~(amm_wants_to_make(in) /\ in.jit_base_asset_amount > 0)
BidAsk(in) == PerpAMM_bid_ask_price(in.amm, in.amm_reserve_price)

\* the AMM price on the taker's side: the ask for a long taker, the bid
\* for a short taker
TakerSideAmmPrice(in) ==
    IF in.direction = Long THEN BidAsk(in).val.ask ELSE BidAsk(in).val.bid

\* C1 as stated: every returned plan has at most 7 steps.
C1_PlanAtMostSeven ==
    (PerpDone /\ result.ok) => Len(result.val) <= 7

\* C1 amended: every returned plan has at most 10 steps: the maker walk
\* leaves at most 8 (it stops after the first Match that brings the plan
\* above 6 steps and one iteration can add a capped AMM step and a Match),
\* then come at most one JIT step and one trailing open-ended AMM step.
C1_PlanAtMostTen ==
    (PerpDone /\ result.ok) => Len(result.val) <= 10

C1_Witness ==
    PerpDone /\ result.ok /\ Len(result.val) = 10

C3_Case ==
    /\ fn = "determine_perp_fulfillment_methods"
    /\ input.direction = Long
    /\ input.taker_price # None
    /\ Len(input.maker_orders_info) = 2
    /\ BidAsk(input).ok
    /\ input.maker_orders_info[1].maker_price < BidAsk(input).val.ask
    /\ BidAsk(input).val.ask < input.maker_orders_info[2].maker_price
    /\ input.maker_orders_info[2].maker_price <= input.taker_price[1]
    /\ can_fill_with_amm(input)
    /\ NoJitStep(input)

C3_MatchOf(i) ==
    Match(input.maker_orders_info[i].maker_key,
          input.maker_orders_info[i].maker_order_index)

\* C3 as stated: in that case the plan is exactly
\* [Match(m1), AMM(cap = m2.price), Match(m2)].
C3_ThreeStepPlan ==
    (pc = "done" /\ C3_Case) =>
        /\ result.ok
        /\ result.val = << C3_MatchOf(1),
                           AMM(Some(input.maker_orders_info[2].maker_price), None),
                           C3_MatchOf(2) >>

\* C3 amended: in that case the plan is exactly the four steps
\* [Match(m1), AMM(cap = m2.price), Match(m2), AMM(None, None)]: the AMM
\* price advanced to m2.price still crosses the taker's limit, so the
\* trailing open-ended AMM step follows.
C3_FourStepPlan ==
    (pc = "done" /\ C3_Case) =>
        /\ result.ok
        /\ result.val = << C3_MatchOf(1),
                           AMM(Some(input.maker_orders_info[2].maker_price), None),
                           C3_MatchOf(2),
                           AMM(None, None) >>

C3_Witness == pc = "done" /\ C3_Case /\ result.ok /\ Len(result.val) = 4

\* empty maker list, AMM eligible, AMM price on the taker's side crosses
\* the taker (or the taker has no limit)
C4_Case ==
    /\ fn = "determine_perp_fulfillment_methods"
    /\ Len(input.maker_orders_info) = 0
    /\ can_fill_with_amm(input)
    /\ BidAsk(input).ok
    /\ \/ input.taker_price = None
       \/ input.direction = Long /\ input.taker_price[1] >= TakerSideAmmPrice(input)
       \/ input.direction = Short /\ input.taker_price[1] <= TakerSideAmmPrice(input)

Spreads == {0, 1, 500000, BID_ASK_SPREAD_PRECISION, BID_ASK_SPREAD_PRECISION + 1}

\* u64 reserve prices, and u128 mark prices up to where the product with
\* the spread factor overflows
PerpReservePrices == 0..U64_MAX
MarketMarkPrices == (0..U64_MAX) \cup {1000, 1999, 2000}

InitPrice ==
    /\ pc = "call"
    /\ result = Pending
    /\ self = NoSelf
    /\ \E long_spread \in Spreads, short_spread \in Spreads :
        \/ /\ fn = "perp_market::AMM::bid_ask_price"
           /\ \E reserve_price \in PerpReservePrices :
                input = [amm |-> [long_spread |-> long_spread,
                                  short_spread |-> short_spread],
                         mark_price |-> reserve_price]
        \/ /\ fn = "market::AMM::bid_ask_price"
           /\ \E mark_price \in MarketMarkPrices :
                input = [amm |-> [long_spread |-> long_spread,
                                  short_spread |-> short_spread],
                         mark_price |-> mark_price]

CallPerpBidAsk ==
    /\ pc = "call"
    /\ fn = "perp_market::AMM::bid_ask_price"
    /\ result' = PerpAMM_bid_ask_price(input.amm, input.mark_price)
    /\ pc' = "done"
    /\ UNCHANGED <<fn, input, self>>

CallMarketBidAsk ==
    /\ pc = "call"
    /\ fn = "market::AMM::bid_ask_price"
    /\ result' = MarketAMM_bid_ask_price(input.amm, input.mark_price)
    /\ pc' = "done"
    /\ UNCHANGED <<fn, input, self>>

NextPrice == CallPerpBidAsk \/ CallMarketBidAsk

SpecPrice == InitPrice /\ [][NextPrice]_vars

BidAskDone ==
    /\ pc = "done"
    /\ fn \in {"perp_market::AMM::bid_ask_price", "market::AMM::bid_ask_price"}

\* C5: whenever bid_ask_price succeeds, bid <= mark <= ask, in both AMM
\* implementations; a short spread above the spread precision is an error.
C5_BidBelowMarkBelowAsk ==
    BidAskDone =>
        /\ result.ok => /\ result.val.bid <= input.mark_price
                        /\ input.mark_price <= result.val.ask
        /\ input.amm.short_spread > BID_ASK_SPREAD_PRECISION => ~result.ok

C5_Witness ==
    /\ BidAskDone
    /\ fn = "perp_market::AMM::bid_ask_price"
    /\ result.ok
    /\ input.amm.short_spread > 0
    /\ result.val.bid < input.mark_price
    /\ input.mark_price < result.val.ask

(***************************************************************************)
(* math::oracle  (clearing_house)                                          *)
(***************************************************************************)
Abs(x) == IF x < 0 THEN -x ELSE x

\* math::amm::calculate_price: quote_reserve * peg_multiplier / base_reserve
calculate_price(quote_asset_reserve, base_asset_reserve, peg_multiplier) ==
    checked_div(checked_mul(Ok(quote_asset_reserve), Ok(peg_multiplier), U128_MAX),
                Ok(base_asset_reserve))

MarketAMM_mark_price(amm) ==
    calculate_price(amm.quote_asset_reserve, amm.base_asset_reserve,
                    amm.peg_multiplier)

\* math::amm::is_oracle_valid: invalid when the confidence-to-price ratio
\* exceeds the configured bound, the delay exceeds the maximum staleness, or
\* there are not enough data points
is_oracle_valid(amm, oracle_price_data, validity) ==
    LET is_conf_too_large ==
            oracle_price_data.confidence * 100
                > oracle_price_data.price * validity.confidence_interval_max_pct
        is_stale == oracle_price_data.delay > validity.slots_before_stale
    IN  Ok(~(is_conf_too_large \/ is_stale
             \/ ~oracle_price_data.has_sufficient_number_of_data_points))

\* math::amm::calculate_oracle_mark_spread_pct:
\* (oracle_price - mark_price) / mark_price in spread-precision units
calculate_oracle_mark_spread_pct(amm, oracle_price_data, precomputed_mark_price) ==
    LET mark_price == IF precomputed_mark_price # None
                      THEN Ok(precomputed_mark_price[1])
                      ELSE MarketAMM_mark_price(amm)
    IN  IF ~mark_price.ok \/ mark_price.val = 0 THEN Err
        ELSE LET spread == oracle_price_data.price - mark_price.val
                 quotient == (Abs(spread) * BID_ASK_SPREAD_PRECISION) \div mark_price.val
             IN  Ok(IF spread < 0 THEN -quotient ELSE quotient)

\* math::amm::is_oracle_mark_too_divergent
is_oracle_mark_too_divergent(price_spread_pct, price_divergence) ==
    Ok(Abs(price_spread_pct) > price_divergence.mark_oracle_divergence_max)

get_oracle_status(amm, oracle_price_data, guard_rails, precomputed_mark_price) ==
    LET oracle_is_valid == is_oracle_valid(amm, oracle_price_data, guard_rails.validity)
        oracle_mark_spread_pct ==
            calculate_oracle_mark_spread_pct(amm, oracle_price_data, precomputed_mark_price)
    IN  IF ~oracle_is_valid.ok THEN Err
        ELSE IF ~oracle_mark_spread_pct.ok THEN Err
        ELSE LET is_too_divergent ==
                    is_oracle_mark_too_divergent(oracle_mark_spread_pct.val,
                                                 guard_rails.price_divergence)
             IN  IF ~is_too_divergent.ok THEN Err
                 ELSE Ok([price_data |-> oracle_price_data,
                          oracle_mark_spread_pct |-> oracle_mark_spread_pct.val,
                          is_valid |-> oracle_is_valid.val,
                          mark_too_divergent |-> is_too_divergent.val])

block_operation_and(amm, oracle_price_data, guard_rails, precomputed_mark_price) ==
    LET status == get_oracle_status(amm, oracle_price_data, guard_rails,
                                    precomputed_mark_price)
    IN  IF ~status.ok THEN Err
        ELSE Ok(~status.val.is_valid /\ status.val.mark_too_divergent)

block_operation(amm, oracle_price_data, guard_rails, precomputed_mark_price) ==
    LET status == get_oracle_status(amm, oracle_price_data, guard_rails,
                                    precomputed_mark_price)
    IN  IF ~status.ok THEN Err
        ELSE Ok(~status.val.is_valid \/ status.val.mark_too_divergent)

OraclePriceDatas ==
    [price : {100, 109, 150}, confidence : {0, 2, 3},
     delay : {0, 10, 11}, has_sufficient_number_of_data_points : BOOLEAN]

OracleGuardRailsSet ==
    [validity : [confidence_interval_max_pct : {2, 5}, slots_before_stale : {10}],
     price_divergence : [mark_oracle_divergence_max : {0, 100000}]]

\* reserves with a mark price of 100 and a depleted base reserve
OracleAmms ==
    { [quote_asset_reserve |-> 200, base_asset_reserve |-> 2, peg_multiplier |-> 1],
      [quote_asset_reserve |-> 200, base_asset_reserve |-> 0, peg_multiplier |-> 1] }

InitOracle ==
    /\ pc = "call"
    /\ fn = "block_operation"
    /\ result = Pending
    /\ self = NoSelf
    /\ \E amm \in OracleAmms, oracle_price_data \in OraclePriceDatas,
          guard_rails \in OracleGuardRailsSet,
          precomputed_mark_price \in {None, Some(100), Some(150)} :
            input = [amm |-> amm, oracle_price_data |-> oracle_price_data,
                     guard_rails |-> guard_rails,
                     precomputed_mark_price |-> precomputed_mark_price]

CallBlockOperation ==
    /\ pc = "call"
    /\ fn = "block_operation"
    /\ result' = block_operation(input.amm, input.oracle_price_data,
                                 input.guard_rails, input.precomputed_mark_price)
    /\ pc' = "done"
    /\ UNCHANGED <<fn, input, self>>

SpecOracle == InitOracle /\ [][CallBlockOperation]_vars

BlockOperationDone == pc = "done" /\ fn = "block_operation"

\* the oracle reading is invalid under the validity rules
C6_OracleInvalid ==
    \/ input.oracle_price_data.confidence * 100
          > input.oracle_price_data.price
                * input.guard_rails.validity.confidence_interval_max_pct
    \/ input.oracle_price_data.delay > input.guard_rails.validity.slots_before_stale
    \/ ~input.oracle_price_data.has_sufficient_number_of_data_points

\* the mark price the spread is taken against
C6_Mark ==
    IF input.precomputed_mark_price # None
    THEN input.precomputed_mark_price[1]
    ELSE (input.amm.quote_asset_reserve * input.amm.peg_multiplier)
            \div input.amm.base_asset_reserve

\* the oracle/mark spread exceeds the divergence rule
C6_TooDivergent ==
    (Abs(input.oracle_price_data.price - C6_Mark) * BID_ASK_SPREAD_PRECISION)
        \div C6_Mark
      > input.guard_rails.price_divergence.mark_oracle_divergence_max

\* C6: when block_operation returns Ok(b), b is true iff the oracle is
\* invalid or the oracle/mark spread exceeds the divergence rule.
C6_BlockIffInvalidOrDivergent ==
    (BlockOperationDone /\ result.ok) =>
        (result.val <=> (C6_OracleInvalid \/ C6_TooDivergent))

\* confidence 3% of the price against a 2% maximum, zero oracle/mark
\* spread, reading otherwise valid: blocked
C6_Witness ==
    /\ BlockOperationDone
    /\ result.ok
    /\ input.oracle_price_data.confidence * 100 = 3 * input.oracle_price_data.price
    /\ input.guard_rails.validity.confidence_interval_max_pct = 2
    /\ input.oracle_price_data.delay = 0
    /\ input.oracle_price_data.has_sufficient_number_of_data_points
    /\ input.oracle_price_data.price = C6_Mark
    /\ result.val = TRUE

(***************************************************************************)
(* Margin ratio: Market::get_margin_ratio and PerpMarket::get_margin_ratio *)
(***************************************************************************)
Initial == "Initial"
Partial == "Partial"
Maintenance == "Maintenance"

\* num_integer::Roots::nth_root(2): the floor of the square root, found by
\* bisection between lo (lo * lo <= n) and hi (hi * hi > n)
RECURSIVE sqrt_between(_, _, _)
sqrt_between(n, lo, hi) ==
    IF hi - lo <= 1 THEN lo
    ELSE LET mid == (lo + hi) \div 2
         IN  IF mid * mid <= n
             THEN sqrt_between(n, mid, hi)
             ELSE sqrt_between(n, lo, mid)

nth_root_2(n) == sqrt_between(n, 0, Min(n, 46339) + 1)

as_u32(x) == x % (U32_MAX + 1)

size_sqrt_of_remainder(size) == nth_root_2((size % 1000) + 1)

\* let size_sqrt = ((size / 1000) + 1).nth_root(2)
size_sqrt(size) == nth_root_2((size \div 1000) + 1)

\* 100_000 * BANK_IMF_PRECISION / MARGIN_PRECISION, "1e5 * 1e2"; the
\* precision divides BANK_IMF_PRECISION, so the quotient is taken first
IMF_SURPLUS_DIVISOR(precision) == 100000 * (BANK_IMF_PRECISION \div precision)

Market_margin_ratio_max(margin_type) ==
    IF margin_type = Maintenance
    THEN MARGIN_PRECISION + MARGIN_PRECISION \div 10
    ELSE MARGIN_PRECISION

Market_get_margin_ratio(market, size, margin_type) ==
    LET margin_ratio ==
            CASE margin_type = Initial -> market.margin_ratio_initial
              [] margin_type = Partial -> market.margin_ratio_partial
              [] margin_type = Maintenance -> market.margin_ratio_maintenance
        margin_requirement == market.margin_ratio_partial
        margin_ratio_max == Market_margin_ratio_max(margin_type)
    IN
    IF market.imf_factor > 0
    THEN LET margin_requirement_numer ==
                checked_sub(Ok(margin_requirement),
                            checked_div(Ok(margin_requirement),
                                        Ok(BANK_IMF_PRECISION \div market.imf_factor)))
             size_surplus_margin_requirement ==
                checked_add(margin_requirement_numer,
                            checked_div(
                                checked_mul(Ok(size_sqrt(size)), Ok(market.imf_factor),
                                            U128_MAX),
                                Ok(IMF_SURPLUS_DIVISOR(MARGIN_PRECISION))),
                            U128_MAX)
         IN  IF ~size_surplus_margin_requirement.ok THEN Err
             ELSE Ok(Max(margin_ratio,
                         as_u32(Min(Max(margin_requirement,
                                        size_surplus_margin_requirement.val),
                                    margin_ratio_max))))
    ELSE Ok(Max(margin_ratio, as_u32(margin_requirement)))

\* math::margin::calculate_size_premium_liability_weight: the flat weight
\* when the imf factor is 0; otherwise the reduced floor plus the size
\* surplus, clamped into [liability_weight, precision]
calculate_size_premium_liability_weight(size, imf_factor, liability_weight, precision) ==
    IF imf_factor = 0 THEN Ok(liability_weight)
    ELSE LET numer == checked_sub(Ok(liability_weight),
                                  checked_div(Ok(liability_weight),
                                              Ok(BANK_IMF_PRECISION \div imf_factor)))
             surplus == checked_add(numer,
                            checked_div(
                                checked_mul(Ok(size_sqrt(size)), Ok(imf_factor), U128_MAX),
                                Ok(IMF_SURPLUS_DIVISOR(precision))),
                            U128_MAX)
         IN  IF ~surplus.ok THEN Err
             ELSE Ok(Max(liability_weight, Min(surplus.val, precision)))

PerpMarket_get_margin_ratio(market, size, margin_type) ==
    IF market.status = "Settlement" THEN Ok(0)
    ELSE
    LET default_margin_ratio ==
            IF margin_type = Initial
            THEN market.margin_ratio_initial
            ELSE market.margin_ratio_maintenance
        size_adj_margin_ratio ==
            calculate_size_premium_liability_weight(size, market.imf_factor,
                                                    default_margin_ratio,
                                                    MARGIN_PRECISION)
    IN  IF ~size_adj_margin_ratio.ok THEN Err
        ELSE Ok(Max(default_margin_ratio, size_adj_margin_ratio.val))

Sizes == {0, 999, 1000, 3000, 99000, 1000000, 100000000, MaxSize}

ImfFactors == {0, 1, 1000, BANK_IMF_PRECISION, BANK_IMF_PRECISION + 1}

Markets ==
    [margin_ratio_initial : {0, 50, 2000},
     margin_ratio_partial : {0, 100, 625, 12000},
     margin_ratio_maintenance : {500, 625},
     imf_factor : ImfFactors]

MarketStatuses == {"Initialized", "Active", "ReduceOnly", "Settlement", "Delisted"}

PerpMarkets ==
    [margin_ratio_initial : {0, 1000, 2000},
     margin_ratio_maintenance : {500, 12000},
     imf_factor : {0, 1000},
     status : MarketStatuses]

InitMargin ==
    /\ pc = "call"
    /\ result = Pending
    /\ self = NoSelf
    /\ \E size \in Sizes :
        \/ /\ fn = "Market::get_margin_ratio"
           /\ \E market \in Markets, margin_type \in {Initial, Partial, Maintenance} :
                input = [market |-> market, size |-> size, margin_type |-> margin_type]
        \/ /\ fn = "PerpMarket::get_margin_ratio"
           /\ \E market \in PerpMarkets, margin_type \in {Initial, Maintenance} :
                input = [market |-> market, size |-> size, margin_type |-> margin_type]

CallMarketGetMarginRatio ==
    /\ pc = "call"
    /\ fn = "Market::get_margin_ratio"
    /\ result' = Market_get_margin_ratio(input.market, input.size, input.margin_type)
    /\ pc' = "done"
    /\ UNCHANGED <<fn, input, self>>

CallPerpGetMarginRatio ==
    /\ pc = "call"
    /\ fn = "PerpMarket::get_margin_ratio"
    /\ result' = PerpMarket_get_margin_ratio(input.market, input.size, input.margin_type)
    /\ pc' = "done"
    /\ UNCHANGED <<fn, input, self>>

NextMargin == CallMarketGetMarginRatio \/ CallPerpGetMarginRatio

SpecMargin == InitMargin /\ [][NextMargin]_vars

MarginRatioDone ==
    /\ pc = "done"
    /\ fn \in {"Market::get_margin_ratio", "PerpMarket::get_margin_ratio"}

\* the ratio configured for the requested margin type
ConfiguredRatio ==
    CASE input.margin_type = Initial -> input.market.margin_ratio_initial
      [] input.margin_type = Partial -> input.market.margin_ratio_partial
      [] input.margin_type = Maintenance -> input.market.margin_ratio_maintenance

\* C7: with imf_factor = 0, get_margin_ratio returns exactly the ratio
\* configured for the requested margin type, for every size, every
\* configuration of the ratios and every market status.
C7_FlatRatioWhenImfZero ==
    (MarginRatioDone /\ input.market.imf_factor = 0) =>
        result.ok /\ result.val = ConfiguredRatio

\* C8: for a fixed market with imf_factor > 0, Market::get_margin_ratio for
\* Initial is non-decreasing in size: every smaller size for which it
\* succeeds gives a ratio at most the one returned.
C8_InitialRatioNonDecreasingInSize ==
    (pc = "done" /\ fn = "Market::get_margin_ratio" /\ input.margin_type = Initial
        /\ input.market.imf_factor > 0 /\ result.ok) =>
        \A s1 \in Sizes :
            LET r1 == Market_get_margin_ratio(input.market, s1, Initial)
            IN  (s1 <= input.size /\ r1.ok) => r1.val <= result.val

\* a smaller size gives a strictly smaller initial ratio
C8_Witness ==
    /\ pc = "done" /\ fn = "Market::get_margin_ratio" /\ input.margin_type = Initial
    /\ input.market.imf_factor > 0 /\ result.ok
    /\ \E s1 \in Sizes :
            LET r1 == Market_get_margin_ratio(input.market, s1, Initial)
            IN  s1 < input.size /\ r1.ok /\ r1.val < result.val

(***************************************************************************)
(* Asset weight of unsettled / unrealized pnl                              *)
(***************************************************************************)
as_u8(x) == x % U8_MODULUS

\* lines 115-150: the weight of a positive pnl before the final cap
Market_positive_pnl_asset_weight(market, unsettled_pnl, margin_type) ==
    IF margin_type = Initial
    THEN LET size ==
                checked_div(
                    checked_mul(Ok(unsettled_pnl), Ok(MARK_PRICE_PRECISION_I128),
                                U128_MAX),
                    Ok(Max(MARK_PRICE_PRECISION_I128, market.amm.last_oracle_price)))
             discount ==
                IF ~size.ok THEN Err
                ELSE checked_div(
                        checked_mul(Ok(BANK_IMF_PRECISION + BANK_IMF_PRECISION \div 10),
                                    Ok(BANK_WEIGHT_PRECISION), U128_MAX),
                        checked_add(
                            Ok(BANK_IMF_PRECISION),
                            checked_div(
                                checked_mul(Ok(nth_root_2(size.val + 1)),
                                            Ok(market.imf_factor), U128_MAX),
                                Ok(1000)),
                            U128_MAX))
         IN  IF ~discount.ok THEN Err
             ELSE Ok(Min(market.unsettled_initial_asset_weight, as_u8(discount.val)))
    ELSE Ok(market.unsettled_maintenance_asset_weight)

Market_get_unsettled_asset_weight_nonneg(market, unsettled_pnl, margin_type) ==
    LET unrealised_asset_weight ==
            IF unsettled_pnl >= 0
            THEN Market_positive_pnl_asset_weight(market, unsettled_pnl, margin_type)
            ELSE Ok(100)
    IN  IF ~unrealised_asset_weight.ok THEN Err
        ELSE Ok(Min(BANK_WEIGHT_PRECISION, unrealised_asset_weight.val))

Market_get_unsettled_asset_weight(market, unsettled_pnl, margin_type) ==
    LET unrealised_asset_weight ==
            IF unsettled_pnl > 0
            THEN Market_positive_pnl_asset_weight(market, unsettled_pnl, margin_type)
            ELSE Ok(100)
    IN  IF ~unrealised_asset_weight.ok THEN Err
        ELSE Ok(Min(BANK_WEIGHT_PRECISION, unrealised_asset_weight.val))

\* math::margin::calculate_size_discount_asset_weight:
\* min(asset_weight, 1.1 units / (1 + sqrt(size) * imf_factor / scale)),
\* numerator and denominator both divided by 100
calculate_size_discount_asset_weight(size, imf_factor, asset_weight) ==
    LET discount ==
            checked_div(
                checked_mul(Ok(BANK_IMF_PRECISION + BANK_IMF_PRECISION \div 10),
                            Ok(SPOT_WEIGHT_PRECISION \div 100), U128_MAX),
                checked_add(
                    Ok(BANK_IMF_PRECISION \div 100),
                    checked_div(
                        checked_mul(Ok(nth_root_2(size + 1)), Ok(imf_factor), U128_MAX),
                        Ok(100000)),
                    U128_MAX))
    IN  IF ~discount.ok THEN Err
        ELSE Ok(Min(asset_weight, discount.val))

imbalance_margin_asset_weight_unguarded(market, margin_type) ==
    LET margin_asset_weight ==
            IF margin_type = Initial
            THEN market.unrealized_pnl_initial_asset_weight
            ELSE market.unrealized_pnl_maintenance_asset_weight
    IN
    IF margin_type = Initial
    THEN IF ~market.net_user_pnl.ok THEN Err
         ELSE IF market.net_user_pnl.val > market.unrealized_pnl_max_imbalance
         THEN cast(checked_div(
                      checked_mul(Ok(margin_asset_weight),
                                  Ok(market.unrealized_pnl_max_imbalance), U128_MAX),
                      Ok(Abs(market.net_user_pnl.val))),
                   U32_MAX)
         ELSE Ok(margin_asset_weight)
    ELSE Ok(margin_asset_weight)

\* lines 195-208: the weight scaled down by max_imbalance / net pnl
imbalance_margin_asset_weight(market, margin_type) ==
    LET margin_asset_weight ==
            IF margin_type = Initial
            THEN market.unrealized_pnl_initial_asset_weight
            ELSE market.unrealized_pnl_maintenance_asset_weight
    IN
    IF margin_type = Initial /\ market.unrealized_pnl_max_imbalance > 0
    THEN IF ~market.net_user_pnl.ok THEN Err
         ELSE IF market.net_user_pnl.val > market.unrealized_pnl_max_imbalance
         THEN cast(checked_div(
                      checked_mul(Ok(margin_asset_weight),
                                  Ok(market.unrealized_pnl_max_imbalance), U128_MAX),
                      Ok(Abs(market.net_user_pnl.val))),
                   U32_MAX)
         ELSE Ok(margin_asset_weight)
    ELSE Ok(margin_asset_weight)

PerpMarket_get_unrealized_asset_weight(market, unrealized_pnl, margin_type) ==
    LET margin_asset_weight == imbalance_margin_asset_weight(market, margin_type) IN
    IF ~margin_asset_weight.ok THEN Err
    ELSE IF unrealized_pnl > 0
    THEN IF margin_type = Initial
         THEN LET size == checked_mul(Ok(Abs(unrealized_pnl)),
                                      Ok(AMM_TO_QUOTE_PRECISION_RATIO), U128_MAX)
              IN  IF ~size.ok THEN Err
                  ELSE calculate_size_discount_asset_weight(
                            size.val, market.unrealized_pnl_imf_factor,
                            margin_asset_weight.val)
         ELSE Ok(market.unrealized_pnl_maintenance_asset_weight)
    ELSE Ok(SPOT_WEIGHT_PRECISION)

Pnls == {-5, 0, 1, 1000, 1000000}

WeightMarkets ==
    [unsettled_initial_asset_weight : {0, 80, 100, 120, 255},
     unsettled_maintenance_asset_weight : {90, 100, 120},
     imf_factor : {0, 1000, BANK_IMF_PRECISION},
     amm : [last_oracle_price : {-1, 500, 2000}]]

\* net_user_pnl is what math::amm::calculate_net_user_pnl returns for the
\* market's AMM at its last oracle price.  The initial weight goes through
\* calculate_size_discount_asset_weight and is kept within one unit; the
\* maintenance weight, which the function returns as configured, also takes
\* a value above one unit.
WeightPerpMarkets ==
    [unrealized_pnl_initial_asset_weight : {0, 8000, 10000},
     unrealized_pnl_maintenance_asset_weight : {9000, 10000, 12000},
     unrealized_pnl_imf_factor : {0, 1000},
     unrealized_pnl_max_imbalance : {0, 10, 100},
     net_user_pnl : {Err} \cup {Ok(v) : v \in {-50, 0, 10, 50, 200}}]

InitWeight ==
    /\ pc = "call"
    /\ result = Pending
    /\ self = NoSelf
    /\ \E pnl \in Pnls :
        \/ /\ fn = "Market::get_unsettled_asset_weight"
           /\ \E market \in WeightMarkets, margin_type \in {Initial, Partial, Maintenance} :
                input = [market |-> market, pnl |-> pnl, margin_type |-> margin_type]
        \/ /\ fn = "PerpMarket::get_unrealized_asset_weight"
           /\ \E market \in WeightPerpMarkets, margin_type \in {Initial, Maintenance} :
                input = [market |-> market, pnl |-> pnl, margin_type |-> margin_type]

CallMarketGetUnsettledAssetWeight ==
    /\ pc = "call"
    /\ fn = "Market::get_unsettled_asset_weight"
    /\ result' = Market_get_unsettled_asset_weight(input.market, input.pnl,
                                                   input.margin_type)
    /\ pc' = "done"
    /\ UNCHANGED <<fn, input, self>>

CallPerpGetUnrealizedAssetWeight ==
    /\ pc = "call"
    /\ fn = "PerpMarket::get_unrealized_asset_weight"
    /\ result' = PerpMarket_get_unrealized_asset_weight(input.market, input.pnl,
                                                        input.margin_type)
    /\ pc' = "done"
    /\ UNCHANGED <<fn, input, self>>

NextWeight == CallMarketGetUnsettledAssetWeight \/ CallPerpGetUnrealizedAssetWeight

SpecWeight == InitWeight /\ [][NextWeight]_vars

WeightDone ==
    /\ pc = "done"
    /\ fn \in {"Market::get_unsettled_asset_weight",
               "PerpMarket::get_unrealized_asset_weight"}

\* one full unit of weight of the implementation called
FullUnitWeight ==
    IF fn = "Market::get_unsettled_asset_weight"
    THEN BANK_WEIGHT_PRECISION
    ELSE SPOT_WEIGHT_PRECISION

\* the only failure possible for pnl <= 0: the net user pnl of the imbalance
\* check (Initial, positive max imbalance) could not be computed
NetUserPnlFailed ==
    /\ fn = "PerpMarket::get_unrealized_asset_weight"
    /\ input.margin_type = Initial
    /\ input.market.unrealized_pnl_max_imbalance > 0
    /\ ~input.market.net_user_pnl.ok

C10_WeightWithinUnit ==
    (WeightDone /\ result.ok) =>
        (0 <= result.val /\ result.val <= FullUnitWeight)

(***************************************************************************)
(* Oracle price and TWAP lookup by oracle source                           *)
(* (state::market::AMM and state::perp_market::AMM)                        *)
(***************************************************************************)
\* a panic!() or a failed assert!(): the call does not return
Abort == [ok |-> FALSE, abort |-> TRUE]

I64_MAX == 3            \* stands for i64::MAX in the slot domain
I64_PRICE_MAX == 1000000 \* stands for i64::MAX in the price domain
PRICE_PRECISION == 1000000

Pyth == "Pyth"
Switchboard == "Switchboard"
QuoteAsset == "QuoteAsset"
OracleSource == {Pyth, Switchboard, QuoteAsset}

RECURSIVE pow10(_)
pow10(n) == IF n = 0 THEN 1 ELSE 10 * pow10(n - 1)

\* i64 subtraction of two values that are already i64
checked_sub_i64(a, b) ==
    IF ~a.ok \/ ~b.ok THEN Err
    ELSE IF a.val - b.val > I64_MAX \/ a.val - b.val < -I64_MAX - 1 THEN Err
    ELSE Ok(a.val - b.val)

\* Rust's / truncates towards zero
div_trunc(a, b) == IF a >= 0 THEN a \div b ELSE -((-a) \div b)

\* i128 multiplication and division of signed values
checked_mul_i128(a, b) ==
    IF ~a.ok \/ ~b.ok THEN Err
    ELSE IF b.val # 0 /\ Abs(a.val) > U128_MAX \div Abs(b.val) THEN Err
    ELSE Ok(a.val * b.val)

checked_div_i128(a, b) ==
    IF ~a.ok \/ ~b.ok THEN Err
    ELSE IF b.val = 0 THEN Err ELSE Ok(div_trunc(a.val, b.val))

\* oracle_scale_mult and oracle_scale_div of get_pyth_price / get_pyth_twap
oracle_scale(expo, precision) ==
    LET oracle_precision == pow10(Abs(expo))
    IN  IF oracle_precision > precision
        THEN [mult |-> Ok(1),
              div |-> checked_div(Ok(oracle_precision), Ok(precision))]
        ELSE [mult |-> checked_div(Ok(precision), Ok(oracle_precision)),
              div |-> Ok(1)]

MarketAMM_get_pyth_price(in) ==
    IF ~in.loadable THEN Err
    ELSE
    LET scale == oracle_scale(in.expo, MARK_PRICE_PRECISION_I128)
        oracle_price_scaled ==
            checked_div_i128(checked_mul_i128(Ok(in.price), scale.mult),
                             scale.div)
        oracle_conf_scaled ==
            checked_div(checked_mul(Ok(in.conf), scale.mult, U128_MAX),
                        scale.div)
        oracle_delay ==
            checked_sub_i64(cast(Ok(in.clock_slot), I64_MAX),
                            cast(Ok(in.slot), I64_MAX))
    IN  IF ~scale.mult.ok \/ ~scale.div.ok \/ ~oracle_price_scaled.ok
           \/ ~oracle_conf_scaled.ok \/ ~oracle_delay.ok
        THEN Err
        ELSE Ok([price |-> oracle_price_scaled.val,
                 confidence |-> oracle_conf_scaled.val,
                 delay |-> oracle_delay.val,
                 has_sufficient_number_of_data_points |-> TRUE])

convert_switchboard_decimal(mantissa, scale) ==
    LET switchboard_precision == pow10(scale)
    IN  IF switchboard_precision > MARK_PRICE_PRECISION_I128
        THEN checked_div_i128(Ok(mantissa),
                 Ok(switchboard_precision \div MARK_PRICE_PRECISION_I128))
        ELSE checked_mul_i128(Ok(mantissa),
                 Ok(MARK_PRICE_PRECISION_I128 \div switchboard_precision))

MarketAMM_get_switchboard_price(in) ==
    IF ~in.loadable THEN Err
    ELSE
    LET price == convert_switchboard_decimal(in.price, in.scale)
        std_deviation == convert_switchboard_decimal(in.std_deviation, in.scale)
        confidence ==
            IF std_deviation.val < 0 THEN U128_MAX
            ELSE Max(Abs(std_deviation.val), Abs(price.val) \div 1000)
        delay ==
            checked_sub_i64(cast(Ok(in.clock_slot), I64_MAX),
                            cast(Ok(in.slot), I64_MAX))
    IN  IF ~price.ok \/ ~std_deviation.ok \/ ~delay.ok THEN Err
        ELSE Ok([price |-> price.val,
                 confidence |-> confidence,
                 delay |-> delay.val,
                 has_sufficient_number_of_data_points |->
                     in.num_success >= in.min_oracle_results])

MarketAMM_get_oracle_price(in) ==
    CASE in.oracle_source = Pyth -> MarketAMM_get_pyth_price(in)
      [] in.oracle_source = Switchboard -> MarketAMM_get_switchboard_price(in)
      [] in.oracle_source = QuoteAsset -> Abort

MarketAMM_get_pyth_twap(in) ==
    IF ~in.loadable THEN Err
    ELSE
    LET scale == oracle_scale(in.expo, MARK_PRICE_PRECISION_I128)
    IN  checked_div(checked_mul(Ok(in.twap), scale.mult, U128_MAX), scale.div)

MarketAMM_get_oracle_twap(in) ==
    CASE in.oracle_source = Pyth ->
            LET twap == MarketAMM_get_pyth_twap(in)
            IN  IF twap.ok THEN Ok(Some(twap.val)) ELSE twap
      [] in.oracle_source = Switchboard -> Ok(None)
      [] in.oracle_source = QuoteAsset -> Abort

PerpAMM_get_pyth_twap(in) ==
    IF ~in.loadable THEN Err
    ELSE IF ~(in.twap > div_trunc(in.price, 10)) THEN Abort
    ELSE
    LET scale == oracle_scale(in.expo, PRICE_PRECISION)
    IN  cast(checked_div(checked_mul(Ok(in.twap), scale.mult, U128_MAX),
                         scale.div),
             I64_PRICE_MAX)

PerpAMM_get_oracle_twap(in) ==
    CASE in.oracle_source = Pyth ->
            LET twap == PerpAMM_get_pyth_twap(in)
            IN  IF twap.ok THEN Ok(Some(twap.val)) ELSE twap
      [] in.oracle_source = Switchboard -> Ok(None)
      [] in.oracle_source = QuoteAsset -> Abort

OracleAccounts ==
    [oracle_source : OracleSource, loadable : BOOLEAN,
     price : {-20, 5, 100}, conf : {0, 1}, std_deviation : {-1, 0, 1},
     expo : {-1, -4, -7}, scale : {1, 4}, twap : {0, 5, 100},
     clock_slot : {2, U64_MAX}, slot : {0, 3},
     num_success : {1}, min_oracle_results : {1, 2}]

SourceFns ==
    {"MarketAMM::get_oracle_price", "MarketAMM::get_oracle_twap",
     "PerpAMM::get_oracle_twap"}

InitSource ==
    /\ pc = "call"
    /\ fn \in SourceFns
    /\ input \in OracleAccounts
    /\ result = Pending
    /\ self = NoSelf

CallMarketGetOraclePrice ==
    /\ pc = "call"
    /\ fn = "MarketAMM::get_oracle_price"
    /\ result' = MarketAMM_get_oracle_price(input)
    /\ pc' = "done"
    /\ UNCHANGED <<fn, input, self>>

CallMarketGetOracleTwap ==
    /\ pc = "call"
    /\ fn = "MarketAMM::get_oracle_twap"
    /\ result' = MarketAMM_get_oracle_twap(input)
    /\ pc' = "done"
    /\ UNCHANGED <<fn, input, self>>

CallPerpGetOracleTwap ==
    /\ pc = "call"
    /\ fn = "PerpAMM::get_oracle_twap"
    /\ result' = PerpAMM_get_oracle_twap(input)
    /\ pc' = "done"
    /\ UNCHANGED <<fn, input, self>>

NextSource ==
    \/ CallMarketGetOraclePrice
    \/ CallMarketGetOracleTwap
    \/ CallPerpGetOracleTwap

SpecSource == InitSource /\ [][NextSource]_vars

SourceDone == pc = "done" /\ fn \in SourceFns

\* C11: a lookup on a market whose oracle source is QuoteAsset returns an
\* error value to its caller: it neither aborts nor returns a price
C11_UnsupportedSourceIsErrorValue ==
    (SourceDone /\ input.oracle_source = QuoteAsset) => result = Err

(***************************************************************************)
(* math::fulfillment::determine_spot_fulfillment_methods                   *)
(***************************************************************************)
SpotMatch == "Match"
SerumV3 == "SerumV3"

determine_spot_fulfillment_methods_any_taker(taker_order, maker_available, serum_fulfillment_params_available) ==
    Ok((IF maker_available THEN <<SpotMatch>> ELSE <<>>)
       \o (IF serum_fulfillment_params_available THEN <<SerumV3>> ELSE <<>>))

determine_spot_fulfillment_methods(taker_order, maker_available, serum_fulfillment_params_available) ==
    LET methods1 == IF maker_available THEN <<SpotMatch>> ELSE <<>>
        methods2 ==
            IF ~taker_order.post_only /\ serum_fulfillment_params_available
            THEN Append(methods1, SerumV3)
            ELSE methods1
    IN  Ok(methods2)

SpotTakerOrders ==
    [direction : {Long, Short}, price : 0..MaxPrice,
     post_only : BOOLEAN, immediate_or_cancel : BOOLEAN]

InitSpot ==
    /\ pc = "call"
    /\ fn = "determine_spot_fulfillment_methods"
    /\ input \in [taker_order : SpotTakerOrders,
                  maker_available : BOOLEAN,
                  serum_fulfillment_params_available : BOOLEAN]
    /\ result = Pending
    /\ self = NoSelf

CallSpot ==
    /\ pc = "call"
    /\ fn = "determine_spot_fulfillment_methods"
    /\ result' = determine_spot_fulfillment_methods(
                     input.taker_order, input.maker_available,
                     input.serum_fulfillment_params_available)
    /\ pc' = "done"
    /\ UNCHANGED <<fn, input, self>>

SpecSpot == InitSpot /\ [][CallSpot]_vars

SpotDone == pc = "done" /\ fn = "determine_spot_fulfillment_methods"

Contains(seq, x) == \E i \in 1..Len(seq) : seq[i] = x

\* C12: the spot plan contains Match iff a maker is available, SerumV3 iff
\* the taker is not post-only and the serum params are available, Match
\* before SerumV3, each at most once, and no other method
C12_SpotPlan ==
    SpotDone =>
        /\ result.ok
        /\ Contains(result.val, SpotMatch) <=> input.maker_available
        /\ Contains(result.val, SerumV3) <=>
               (~input.taker_order.post_only
                /\ input.serum_fulfillment_params_available)
        /\ \A i \in 1..Len(result.val) :
               result.val[i] \in {SpotMatch, SerumV3}
        /\ \A i, j \in 1..Len(result.val) :
               (result.val[i] = SerumV3 /\ result.val[j] = SpotMatch) => j < i
        /\ Len(result.val) <= 2

C12_Witness ==
    /\ SpotDone
    /\ input.maker_available
    /\ ~input.taker_order.post_only
    /\ input.serum_fulfillment_params_available
    /\ result = Ok(<<SpotMatch, SerumV3>>)

(***************************************************************************)
(* Maker-only matching without a valid oracle price                        *)
(***************************************************************************)
\* number of leading makers of the list that the taker crosses
CrossedPrefix(in) ==
    Cardinality({i \in 1..Len(in.maker_orders_info) :
                    \A j \in 1..i :
                        taker_crosses(in, in.maker_orders_info[j].maker_price)})

MatchSteps(in, n) ==
    [i \in 1..n |-> Match(in.maker_orders_info[i].maker_key,
                          in.maker_orders_info[i].maker_order_index)]

\* C13: without a valid oracle price the call succeeds and the plan is
\* exactly the Match steps of the first min(k, 7) makers the taker crosses
C13_MakerOnlyWithoutOracle ==
    (PerpDone /\ input.valid_oracle_price = None) =>
        result = Ok(MatchSteps(input, Min(CrossedPrefix(input), 7)))

(***************************************************************************)
(* state::perp_market::PerpMarket::get_initial_leverage_ratio              *)
(***************************************************************************)
\* the function returns a plain u128: Ok(v) is the value v, and the
\* unchecked division by zero aborts
PerpMarket_get_initial_leverage_ratio(market, margin_type) ==
    LET margin_ratio ==
            IF margin_type = Initial
            THEN market.margin_ratio_initial
            ELSE market.margin_ratio_maintenance
    IN  IF margin_ratio = 0 THEN Abort
        ELSE Ok((MARGIN_PRECISION * MARGIN_PRECISION) \div margin_ratio)

LeverageRatios == {0, 1, 500, 625, 1000, 2000, MARGIN_PRECISION, U32_MAX}

InitLeverage ==
    /\ pc = "call"
    /\ fn = "PerpMarket::get_initial_leverage_ratio"
    /\ input \in [market : [margin_ratio_initial : LeverageRatios,
                            margin_ratio_maintenance : LeverageRatios],
                  margin_type : {Initial, Maintenance}]
    /\ result = Pending
    /\ self = NoSelf

CallGetInitialLeverageRatio ==
    /\ pc = "call"
    /\ fn = "PerpMarket::get_initial_leverage_ratio"
    /\ result' = PerpMarket_get_initial_leverage_ratio(input.market,
                                                       input.margin_type)
    /\ pc' = "done"
    /\ UNCHANGED <<fn, input, self>>

SpecLeverage == InitLeverage /\ [][CallGetInitialLeverageRatio]_vars

LeverageDone == pc = "done" /\ fn = "PerpMarket::get_initial_leverage_ratio"

\* C14: get_initial_leverage_ratio never aborts, and on a market whose
\* margin ratio for the requested type is 0 it returns an arithmetic error
C14_ZeroRatioIsArithmeticError ==
    LeverageDone =>
        /\ result # Abort
        /\ ConfiguredRatio = 0 => result = Err

(***************************************************************************)
(* The capped AMM steps of the maker walk                                  *)
(***************************************************************************)
\* the AMM price is worse for the taker than the maker's price
AmmWorseForTaker(in, amm_price, maker_price) ==
    IF in.direction = Long THEN amm_price > maker_price
    ELSE amm_price < maker_price

\* the AMM price is better for the taker than the maker's price
AmmBetterForTaker(in, amm_price, maker_price) ==
    IF in.direction = Long THEN amm_price < maker_price
    ELSE amm_price > maker_price

CapRule(in, as_stated, amm_price, maker_price) ==
    /\ can_fill_with_amm(in)
    /\ IF as_stated
       THEN AmmWorseForTaker(in, amm_price, maker_price)
       ELSE AmmBetterForTaker(in, amm_price, maker_price)

\* the AMM price on the taker's side when the walk reaches maker i, if every
\* maker before i was walked and the price advanced as the rule says
RECURSIVE AmmPriceBefore(_, _, _)
AmmPriceBefore(in, as_stated, i) ==
    IF i = 1 THEN TakerSideAmmPrice(in)
    ELSE LET before == AmmPriceBefore(in, as_stated, i - 1)
             maker_price == in.maker_orders_info[i - 1].maker_price
         IN  IF CapRule(in, as_stated, before, maker_price)
             THEN maker_price ELSE before

IsMatchOf(step, maker) ==
    step.method = "Match" /\ step.maker_key = maker.maker_key

\* the makers whose Match step is in the plan
MatchedMakers(in, plan) ==
    {i \in 1..Len(in.maker_orders_info) :
        \E q \in 1..Len(plan) : IsMatchOf(plan[q], in.maker_orders_info[i])}

MatchPos(in, plan, i) ==
    CHOOSE q \in 1..Len(plan) : IsMatchOf(plan[q], in.maker_orders_info[i])

CappedBefore(in, plan, i) ==
    /\ MatchPos(in, plan, i) > 1
    /\ plan[MatchPos(in, plan, i) - 1] =
           AMM(Some(in.maker_orders_info[i].maker_price), None)

EndsWithOpenEndedAmm(plan) ==
    Len(plan) > 0 /\ IsOpenEndedAmm(plan[Len(plan)])

\* C15 as stated: a walked maker is preceded by an AMM step capped at its
\* price whenever the AMM is eligible and the AMM's current price on the
\* taker's side is worse for the taker than the maker's price
C15_CappedWhenAmmWorse ==
    (PerpDone /\ result.ok) =>
        \A i \in MatchedMakers(input, result.val) :
            CapRule(input, TRUE, AmmPriceBefore(input, TRUE, i),
                    input.maker_orders_info[i].maker_price)
            => CappedBefore(input, result.val, i)

\* C15 amended: a walked maker is preceded by an AMM step capped at its
\* price exactly when the AMM is eligible and the AMM's current price on
\* the taker's side is better for the taker than the maker's price (the ask
\* is below a long taker's maker, the bid above a short taker's maker); the
\* AMM price then becomes the maker's price for the later makers and for
\* the check of the trailing open-ended AMM step
C15_CappedWhenAmmBetter ==
    (PerpDone /\ result.ok) =>
        /\ \A i \in MatchedMakers(input, result.val) :
               CapRule(input, FALSE, AmmPriceBefore(input, FALSE, i),
                       input.maker_orders_info[i].maker_price)
               <=> CappedBefore(input, result.val, i)
        /\ EndsWithOpenEndedAmm(result.val) <=>
               /\ can_fill_with_amm(input)
               /\ taker_crosses(input,
                      AmmPriceBefore(input, FALSE,
                          Cardinality(MatchedMakers(input, result.val)) + 1))

\* two makers at the same price above the ask: the first one is capped and
\* the second one is not, because the AMM price has advanced
C15_Witness ==
    /\ PerpDone /\ result.ok
    /\ input.direction = Long
    /\ \E i \in MatchedMakers(input, result.val) :
          /\ i > 1
          /\ i - 1 \in MatchedMakers(input, result.val)
          /\ CappedBefore(input, result.val, i - 1)
          /\ ~CappedBefore(input, result.val, i)
          /\ input.maker_orders_info[i].maker_price
                 = input.maker_orders_info[i - 1].maker_price
    /\ EndsWithOpenEndedAmm(result.val)

(***************************************************************************)
(* The trailing open-ended AMM step                                        *)
(***************************************************************************)
\* the AMM price on the taker's side after the maker walk
AdvancedAmmPrice(in, plan) ==
    AmmPriceBefore(in, FALSE, Cardinality(MatchedMakers(in, plan)) + 1)

\* C16: the plan ends with AMM(None, None) iff the AMM is eligible and its
\* price on the taker's side, as advanced by the maker walk, crosses the
\* taker's limit or the taker has no limit; an open-ended AMM step occurs
\* at most once and only as the last step
C16_OpenEndedAmmOnlyLast ==
    (PerpDone /\ result.ok) =>
        /\ EndsWithOpenEndedAmm(result.val) <=>
               /\ can_fill_with_amm(input)
               /\ \/ input.taker_price = None
                  \/ do_orders_cross(opposite(input.direction),
                                     AdvancedAmmPrice(input, result.val),
                                     input.taker_price[1])
        /\ \A q \in 1..Len(result.val) :
               IsOpenEndedAmm(result.val[q]) => q = Len(result.val)
        /\ Cardinality({q \in 1..Len(result.val) :
                           IsOpenEndedAmm(result.val[q])}) <= 1

\* a taker with a limit, a walk that advanced the AMM price, and a trailing
\* open-ended AMM step
C16_Witness ==
    /\ PerpDone /\ result.ok
    /\ input.taker_price # None
    /\ AdvancedAmmPrice(input, result.val) # TakerSideAmmPrice(input)
    /\ EndsWithOpenEndedAmm(result.val)
    /\ Len(result.val) >= 3

(***************************************************************************)
(* Bounds of the margin ratio                                              *)
(***************************************************************************)
\* 1x leverage for Initial and Partial, 1.1x for Maintenance
MarginRatioMax == Market_margin_ratio_max(input.margin_type)

\* C17: a margin ratio that get_margin_ratio returns is at least the ratio
\* configured for the requested margin type and, when that ratio is at most
\* margin_ratio_max, at most margin_ratio_max
C17_RatioWithinBaseAndMax ==
    (MarginRatioDone /\ result.ok) =>
        /\ result.val >= ConfiguredRatio
        /\ ConfiguredRatio <= MarginRatioMax => result.val <= MarginRatioMax

(***************************************************************************)
(* The imbalance scaling of PerpMarket::get_unrealized_asset_weight        *)
(***************************************************************************)
PerpWeightDone ==
    pc = "done" /\ fn = "PerpMarket::get_unrealized_asset_weight"

NetPnlAboveCeiling ==
    /\ input.market.net_user_pnl.ok
    /\ input.market.net_user_pnl.val > 0
    /\ input.market.net_user_pnl.val > input.market.unrealized_pnl_max_imbalance

\* the initial weight scaled by ceiling / net pnl when the scaling applies
ScaledInitialWeight(applies) ==
    IF applies
    THEN (input.market.unrealized_pnl_initial_asset_weight
              * input.market.unrealized_pnl_max_imbalance)
         \div input.market.net_user_pnl.val
    ELSE input.market.unrealized_pnl_initial_asset_weight

\* what the call returns for a positive pnl if the scaling applies exactly
\* in the case `applies`
WeightWhenScaling(applies) ==
    IF input.margin_type = Initial
    THEN calculate_size_discount_asset_weight(
             input.pnl * AMM_TO_QUOTE_PRECISION_RATIO,
             input.market.unrealized_pnl_imf_factor,
             ScaledInitialWeight(applies))
    ELSE Ok(input.market.unrealized_pnl_maintenance_asset_weight)

\* C18 as stated: the scaling applies exactly when the margin type is
\* Initial and the net pnl is positive and above the ceiling, for every
\* ceiling including 0
C18_ScaledAboveEveryCeiling ==
    (PerpWeightDone /\ result.ok /\ input.pnl > 0) =>
        /\ result = WeightWhenScaling(input.margin_type = Initial
                                      /\ NetPnlAboveCeiling)
        /\ input.margin_type = Initial =>
               result.val <= input.market.unrealized_pnl_initial_asset_weight

\* C18 amended: the scaling applies exactly when the margin type is Initial,
\* the ceiling is positive and the net pnl is above the ceiling; a ceiling
\* of 0 switches the scaling off.  The scaled weight never exceeds the
\* configured one; for Maintenance, for a ceiling of 0 and for a net pnl at
\* or below the ceiling the weight does not depend on the net pnl
C18_ScaledAbovePositiveCeiling ==
    (PerpWeightDone /\ result.ok /\ input.pnl > 0) =>
        /\ result = WeightWhenScaling(
                        /\ input.margin_type = Initial
                        /\ input.market.unrealized_pnl_max_imbalance > 0
                        /\ NetPnlAboveCeiling)
        /\ input.margin_type = Initial =>
               result.val <= input.market.unrealized_pnl_initial_asset_weight

\* the scaling has applied: 8000 * 10 / 50 = 1600
C18_Witness ==
    /\ PerpWeightDone /\ result.ok /\ input.pnl > 0
    /\ input.margin_type = Initial
    /\ input.market.unrealized_pnl_max_imbalance > 0
    /\ NetPnlAboveCeiling
    /\ input.market.unrealized_pnl_initial_asset_weight > 0
    /\ result.val < input.market.unrealized_pnl_initial_asset_weight
    /\ result.val = ScaledInitialWeight(TRUE)

(***************************************************************************)
(* state::perp_market::AMM::update_volume_24h                              *)
(***************************************************************************)
U64_VOLUME_MAX == 2000  \* stands for u64::MAX in the volume domain
MaxCalls == 2           \* calls of a mutator in one behaviour
TWENTY_FOUR_HOUR == 86400

\* math::stats::calculate_rolling_sum:
\* data1 * max(0, weight1_denom - weight1_numer) / weight1_denom + data2
calculate_rolling_sum(data1, data2, weight1_numer, weight1_denom) ==
    checked_add(
        cast(checked_div(
                checked_mul(Ok(data1),
                            Ok(Max(0, weight1_denom - weight1_numer)),
                            U128_MAX),
                Ok(weight1_denom)),
             U64_VOLUME_MAX),
        Ok(data2), U64_VOLUME_MAX)

\* math::amm::update_amm_long_short_intensity: adds the trade to the
\* intensity counter of its direction
update_amm_long_short_intensity(amm, now, quote_asset_amount, position_direction) ==
    LET long_volume ==
            checked_add(Ok(amm.long_intensity_volume),
                        Ok(IF position_direction = Long
                           THEN quote_asset_amount ELSE 0),
                        U64_VOLUME_MAX)
        short_volume ==
            checked_add(Ok(amm.short_intensity_volume),
                        Ok(IF position_direction = Short
                           THEN quote_asset_amount ELSE 0),
                        U64_VOLUME_MAX)
    IN  IF ~long_volume.ok \/ ~short_volume.ok THEN Err
        ELSE Ok([amm EXCEPT !.long_intensity_volume = long_volume.val,
                            !.short_intensity_volume = short_volume.val])

since_last_unclamped(amm, now) == now - amm.last_trade_ts

\* line 512: max(1, now - self.last_trade_ts)
since_last(amm, now) == Max(1, now - amm.last_trade_ts)

\* the result of the call and the AMM it leaves behind
update_volume_24h(amm, quote_asset_amount, position_direction, now) ==
    LET intensity ==
            update_amm_long_short_intensity(amm, now, quote_asset_amount,
                                            position_direction)
    IN
    IF ~intensity.ok THEN [result |-> Err, amm |-> amm]
    ELSE
    LET volume_24h ==
            calculate_rolling_sum(intensity.val.volume_24h, quote_asset_amount,
                                  since_last(amm, now), TWENTY_FOUR_HOUR)
    IN  IF ~volume_24h.ok THEN [result |-> Err, amm |-> intensity.val]
        ELSE [result |-> Ok(<<>>),
              amm |-> [intensity.val EXCEPT !.volume_24h = volume_24h.val,
                                            !.last_trade_ts = now]]

VolumeAMMs ==
    [volume_24h : {0, 1, 1000, U64_VOLUME_MAX}, last_trade_ts : {0, 100},
     long_intensity_volume : {0}, short_intensity_volume : {0, 1000}]

TradeTimes == {0, 100, 43200, 43300, 86400, 86500}

InitVolume ==
    /\ pc = "call"
    /\ fn = "AMM::update_volume_24h"
    /\ input = [call |-> 0]
    /\ result = Pending
    /\ self \in VolumeAMMs

\* input records the arguments of the latest call, the AMM before it and
\* the number of calls made so far
CallUpdateVolume24h ==
    /\ pc \in {"call", "done"}
    /\ fn = "AMM::update_volume_24h"
    /\ input.call < MaxCalls
    /\ \E quote_asset_amount \in {0, 1, 500},
          position_direction \in {Long, Short},
          now \in TradeTimes :
        LET out == update_volume_24h(self, quote_asset_amount,
                                     position_direction, now)
        IN  /\ result' = out.result
            /\ self' = out.amm
            /\ input' = [quote_asset_amount |-> quote_asset_amount,
                         position_direction |-> position_direction,
                         now |-> now, before |-> self,
                         call |-> input.call + 1]
    /\ pc' = "done"
    /\ UNCHANGED fn

SpecVolume == InitVolume /\ [][CallUpdateVolume24h]_vars

VolumeDone == pc = "done" /\ fn = "AMM::update_volume_24h"

\* old * max(0, 1 - elapsed / 24h) + notional
DecayedVolume(old, elapsed, notional) ==
    (old * Max(0, TWENTY_FOUR_HOUR - elapsed)) \div TWENTY_FOUR_HOUR + notional

\* C19 as stated: after a successful call with now >= t0, volume_24h is the
\* old volume decayed over elapsed = now - t0 plus the notional, also for
\* now = t0, and last_trade_ts = now
C19_DecayOverElapsed ==
    (VolumeDone /\ result.ok /\ input.now >= input.before.last_trade_ts) =>
        /\ self.volume_24h =
               DecayedVolume(input.before.volume_24h,
                             input.now - input.before.last_trade_ts,
                             input.quote_asset_amount)
        /\ self.last_trade_ts = input.now

\* C19 amended: the decay is over elapsed = max(1, now - t0): two trades at
\* the same timestamp decay the old volume by one second
C19_DecayOverAtLeastOneSecond ==
    (VolumeDone /\ result.ok /\ input.now >= input.before.last_trade_ts) =>
        /\ self.volume_24h =
               DecayedVolume(input.before.volume_24h,
                             Max(1, input.now - input.before.last_trade_ts),
                             input.quote_asset_amount)
        /\ self.last_trade_ts = input.now

\* old = 1000, notional = 500, elapsed = 12h gives 1000
C19_Witness ==
    /\ VolumeDone /\ result.ok
    /\ input.before.volume_24h = 1000
    /\ input.quote_asset_amount = 500
    /\ input.now - input.before.last_trade_ts = 43200
    /\ self.volume_24h = 1000
    /\ self.last_trade_ts = input.now

(***************************************************************************)
(* PoolBalance: impl BankBalance (state::market) and impl SpotBalance      *)
(* (state::perp_market).  A method returns its result and the pool it      *)
(* leaves behind.                                                          *)
(***************************************************************************)
Deposit == "Deposit"
Borrow == "Borrow"
CantUpdatePoolBalanceType == [ok |-> FALSE, error |-> "CantUpdatePoolBalanceType"]

MarketPoolBalance_balance_type(pool) == Deposit

MarketPoolBalance_balance(pool) == pool.balance

MarketPoolBalance_increase_balance(pool, delta) ==
    LET balance == checked_add(Ok(pool.balance), Ok(delta), U128_MAX)
    IN  IF ~balance.ok THEN [result |-> Err, pool |-> pool]
        ELSE [result |-> Ok(<<>>), pool |-> [pool EXCEPT !.balance = balance.val]]

MarketPoolBalance_decrease_balance_saturating(pool, delta) ==
    [result |-> Ok(<<>>),
     pool |-> [pool EXCEPT !.balance = Max(0, pool.balance - delta)]]

MarketPoolBalance_decrease_balance(pool, delta) ==
    LET balance == checked_sub(Ok(pool.balance), Ok(delta))
    IN  IF ~balance.ok THEN [result |-> Err, pool |-> pool]
        ELSE [result |-> Ok(<<>>), pool |-> [pool EXCEPT !.balance = balance.val]]

MarketPoolBalance_update_balance_type(pool, balance_type) ==
    [result |-> CantUpdatePoolBalanceType, pool |-> pool]

PerpPoolBalance_balance_type(pool) == Deposit

PerpPoolBalance_balance(pool) == pool.scaled_balance

PerpPoolBalance_increase_balance(pool, delta) ==
    LET balance == checked_add(Ok(pool.scaled_balance), Ok(delta), U128_MAX)
    IN  IF ~balance.ok THEN [result |-> Err, pool |-> pool]
        ELSE [result |-> Ok(<<>>),
              pool |-> [pool EXCEPT !.scaled_balance = balance.val]]

PerpPoolBalance_decrease_balance(pool, delta) ==
    LET balance == checked_sub(Ok(pool.scaled_balance), Ok(delta))
    IN  IF ~balance.ok THEN [result |-> Err, pool |-> pool]
        ELSE [result |-> Ok(<<>>),
              pool |-> [pool EXCEPT !.scaled_balance = balance.val]]

PerpPoolBalance_update_balance_type(pool, balance_type) ==
    [result |-> CantUpdatePoolBalanceType, pool |-> pool]

PoolBalances == {0, 5, U128_MAX - 1}
PoolDeltas == {0, 1, 5, U128_MAX}

MarketPoolFns ==
    {"market::PoolBalance", "market::PoolBalance::increase_balance",
     "market::PoolBalance::decrease_balance",
     "market::PoolBalance::update_balance_type"}

PerpPoolFns ==
    {"perp_market::PoolBalance", "perp_market::PoolBalance::increase_balance",
     "perp_market::PoolBalance::decrease_balance",
     "perp_market::PoolBalance::update_balance_type"}

\* input records the latest call (its argument, the pool before it), the
\* balance the pool started with, the sum of the deltas of the successful
\* increases minus those of the successful decreases, and the number of calls
InitPool ==
    /\ pc = "call"
    /\ result = Pending
    /\ \E balance \in PoolBalances :
        \/ /\ fn = "market::PoolBalance"
           /\ self = [balance |-> balance]
           /\ input = [initial |-> balance, net |-> 0, call |-> 0]
        \/ /\ fn = "perp_market::PoolBalance"
           /\ self = [scaled_balance |-> balance, market_index |-> 0]
           /\ input = [initial |-> balance, net |-> 0, call |-> 0]

PoolCall(name, arg, out, net_delta) ==
    /\ fn' = name
    /\ result' = out.result
    /\ self' = out.pool
    /\ input' = [initial |-> input.initial,
                 net |-> input.net + (IF out.result.ok THEN net_delta ELSE 0),
                 call |-> input.call + 1, arg |-> arg, before |-> self]
    /\ pc' = "done"

CallMarketIncreaseBalance ==
    /\ fn \in MarketPoolFns /\ input.call < MaxCalls
    /\ \E delta \in PoolDeltas :
          PoolCall("market::PoolBalance::increase_balance", delta,
                   MarketPoolBalance_increase_balance(self, delta), delta)

CallMarketDecreaseBalance ==
    /\ fn \in MarketPoolFns /\ input.call < MaxCalls
    /\ \E delta \in PoolDeltas :
          PoolCall("market::PoolBalance::decrease_balance", delta,
                   MarketPoolBalance_decrease_balance(self, delta), -delta)

CallMarketUpdateBalanceType ==
    /\ fn \in MarketPoolFns /\ input.call < MaxCalls
    /\ \E balance_type \in {Deposit, Borrow} :
          PoolCall("market::PoolBalance::update_balance_type", balance_type,
                   MarketPoolBalance_update_balance_type(self, balance_type), 0)

CallPerpIncreaseBalance ==
    /\ fn \in PerpPoolFns /\ input.call < MaxCalls
    /\ \E delta \in PoolDeltas :
          PoolCall("perp_market::PoolBalance::increase_balance", delta,
                   PerpPoolBalance_increase_balance(self, delta), delta)

CallPerpDecreaseBalance ==
    /\ fn \in PerpPoolFns /\ input.call < MaxCalls
    /\ \E delta \in PoolDeltas :
          PoolCall("perp_market::PoolBalance::decrease_balance", delta,
                   PerpPoolBalance_decrease_balance(self, delta), -delta)

CallPerpUpdateBalanceType ==
    /\ fn \in PerpPoolFns /\ input.call < MaxCalls
    /\ \E balance_type \in {Deposit, Borrow} :
          PoolCall("perp_market::PoolBalance::update_balance_type", balance_type,
                   PerpPoolBalance_update_balance_type(self, balance_type), 0)

NextPool ==
    \/ CallMarketIncreaseBalance
    \/ CallMarketDecreaseBalance
    \/ CallMarketUpdateBalanceType
    \/ CallPerpIncreaseBalance
    \/ CallPerpDecreaseBalance
    \/ CallPerpUpdateBalanceType

SpecPool == InitPool /\ [][NextPool]_vars

PoolDone == pc = "done" /\ fn \in MarketPoolFns \cup PerpPoolFns

PoolBalanceOf(pool) ==
    IF fn \in MarketPoolFns
    THEN MarketPoolBalance_balance(pool)
    ELSE PerpPoolBalance_balance(pool)

PoolBalanceTypeOf(pool) ==
    IF fn \in MarketPoolFns
    THEN MarketPoolBalance_balance_type(pool)
    ELSE PerpPoolBalance_balance_type(pool)

IsIncrease ==
    fn \in {"market::PoolBalance::increase_balance",
            "perp_market::PoolBalance::increase_balance"}
IsDecrease ==
    fn \in {"market::PoolBalance::decrease_balance",
            "perp_market::PoolBalance::decrease_balance"}
IsUpdateBalanceType ==
    fn \in {"market::PoolBalance::update_balance_type",
            "perp_market::PoolBalance::update_balance_type"}

\* C20: after any sequence of calls the balance type is Deposit, an
\* update_balance_type call has failed with CantUpdatePoolBalanceType and
\* left the balance unchanged, the balance is the initial balance plus the
\* successful increases minus the successful decreases, and an increase
\* that would overflow or a decrease above the balance has failed with an
\* arithmetic error and left the balance unchanged
C20_PoolBalanceLedger ==
    PoolDone =>
        /\ PoolBalanceTypeOf(self) = Deposit
        /\ PoolBalanceOf(self) = input.initial + input.net
        /\ IsUpdateBalanceType =>
               /\ result = CantUpdatePoolBalanceType
               /\ self = input.before
        /\ (IsIncrease /\ input.arg > U128_MAX - PoolBalanceOf(input.before)) =>
               result = Err /\ self = input.before
        /\ (IsDecrease /\ input.arg > PoolBalanceOf(input.before)) =>
               result = Err /\ self = input.before
        /\ (IsIncrease /\ result.ok) =>
               PoolBalanceOf(self) = PoolBalanceOf(input.before) + input.arg
        /\ (IsDecrease /\ result.ok) =>
               PoolBalanceOf(self) = PoolBalanceOf(input.before) - input.arg

\* a decrease above the balance of a pool that an earlier call has changed
C20_Witness ==
    /\ PoolDone
    /\ IsDecrease
    /\ input.call = 2
    /\ input.net # 0
    /\ input.arg > PoolBalanceOf(input.before)
    /\ result = Err
    /\ self = input.before

(***************************************************************************)
(* Shape of the plans of determine_perp_fulfillment_methods                *)
(***************************************************************************)
\* a step of the maker walk that fills the AMM up to a maker's price
IsCappedAmm(step) ==
    step.method = "AMM" /\ step.price # None /\ step.size = None

IsMatch(step) == step.method = "Match"

MatchStepsOf(plan) == SelectSeq(plan, IsMatch)

\* C21: each price-capped AMM step of a plan is immediately followed by the
\* Match step of the maker whose price is the cap, and the Match steps are,
\* in order, those of a prefix of the maker list that the taker crosses
C21_MatchesArePrefix ==
    (PerpDone /\ result.ok) =>
        /\ \A q \in 1..Len(result.val) :
               IsCappedAmm(result.val[q]) =>
                   /\ q < Len(result.val)
                   /\ IsMatch(result.val[q + 1])
                   /\ \E i \in 1..Len(input.maker_orders_info) :
                          /\ IsMatchOf(result.val[q + 1], input.maker_orders_info[i])
                          /\ input.maker_orders_info[i].maker_price
                                 = result.val[q].price[1]
        /\ Len(MatchStepsOf(result.val)) <= CrossedPrefix(input)
        /\ \A i \in 1..Len(MatchStepsOf(result.val)) :
               IsMatchOf(MatchStepsOf(result.val)[i], input.maker_orders_info[i])

\* a plan with a capped AMM step after the first Match, over a maker list
\* that goes on beyond the makers the taker crosses
C21_Witness ==
    /\ PerpDone /\ result.ok
    /\ \E q \in 2..Len(result.val) : IsCappedAmm(result.val[q])
    /\ Len(MatchStepsOf(result.val)) >= 2
    /\ Len(MatchStepsOf(result.val)) < Len(input.maker_orders_info)

(***************************************************************************)
(* state::perp_market::PerpMarket::is_active                               *)
(***************************************************************************)
MaxNow == 4             \* latest time of a call

PerpMarket_is_active_flipped(market, now) ==
    LET status_ok == market.status \notin {"Settlement", "Delisted"}
        not_expired == market.expiry_ts = 0 \/ now > market.expiry_ts
    IN  Ok(status_ok /\ not_expired)

PerpMarket_is_active(market, now) ==
    LET status_ok == market.status \notin {"Settlement", "Delisted"}
        not_expired == market.expiry_ts = 0 \/ now < market.expiry_ts
    IN  Ok(status_ok /\ not_expired)

ActiveMarkets == [status : MarketStatuses, expiry_ts : {-1, 0, 2, 3}]

\* the market does not change; input records the time of the latest call,
\* what the call before it returned and the number of calls made so far
InitActive ==
    /\ pc = "call"
    /\ fn = "PerpMarket::is_active"
    /\ input = [now |-> 0, before |-> Pending, call |-> 0]
    /\ result = Pending
    /\ self \in ActiveMarkets

CallIsActive ==
    /\ pc \in {"call", "done"}
    /\ fn = "PerpMarket::is_active"
    /\ input.call < MaxCalls
    /\ \E now \in input.now..MaxNow :
        /\ result' = PerpMarket_is_active(self, now)
        /\ input' = [now |-> now, before |-> result, call |-> input.call + 1]
    /\ pc' = "done"
    /\ UNCHANGED <<fn, self>>

SpecActive == InitActive /\ [][CallIsActive]_vars

ActiveDone == pc = "done" /\ fn = "PerpMarket::is_active"

\* C22: is_active is false in the statuses Settlement and Delisted, and for
\* an unchanged market a call at a later time returns false once a call has
\* returned false: a market with expiry_ts # 0 is inactive from expiry_ts
\* on, a market with expiry_ts = 0 never expires
C22_InactiveStaysInactive ==
    ActiveDone =>
        /\ result.ok
        /\ self.status \in {"Settlement", "Delisted"} => result.val = FALSE
        /\ input.before = Ok(FALSE) => result.val = FALSE
        /\ (self.expiry_ts # 0 /\ input.now >= self.expiry_ts) =>
               result.val = FALSE
        /\ (self.expiry_ts = 0 /\ self.status \notin {"Settlement", "Delisted"}) =>
               result.val = TRUE

\* a market that was active at the first call has expired at the second
C22_Witness ==
    /\ ActiveDone
    /\ input.call = 2
    /\ input.before = Ok(TRUE)
    /\ result = Ok(FALSE)
    /\ input.now >= self.expiry_ts
====
